---- MODULE Spec2Model ----
(***************************************************************************)
(* soshell: one websocket session of the web shell.                        *)
(*                                                                         *)
(* The session is one goroutine: wsHandler -> listener -> command handler  *)
(* -> promptSecure / prompt / getAttribute -> recieve.  pc is its position,*)
(* stack the return labels of the calls in progress.  The browser is the   *)
(* environment: every read takes the frame the browser sent next, or finds *)
(* the stream ended; the write side may break at any moment.               *)
(***************************************************************************)
EXTENDS Naturals, Sequences, FiniteSets, TLC

VARIABLES
    origin,   \* ws.Config().Origin of the connection
    pc,       \* position of the session goroutine
    stack,    \* return labels of the calls in progress (innermost first)
    rdOpen,   \* the inbound stream has not ended
    wrOpen,   \* writes still succeed
    dom,      \* browser: the type attribute of the input box #msg-txt
    log,      \* sends and receives made while serving the current packet
    cmdMap,   \* the command table (names of the registered commands)
    user,     \* c.user, the session's identity
    store,    \* the user store: name -> [pass, email]
    lp,       \* listener: p.Args of the packet read last
    le,       \* listener: the e declared by "p, e :=" inside the loop
    lret,     \* listener: the named result e
    h,        \* frame of the running command handler
    ps,       \* frame of promptSecure
    q,        \* frame of the innermost client method (prompt, getAttribute, ...)
    ret       \* results of the call that returned last

vars == <<origin, pc, stack, rdOpen, wrOpen, dom, log, cmdMap, user, store,
          lp, le, lret, h, ps, q, ret>>

-----------------------------------------------------------------------------
(* Errors *)

nil == "nil"
ErrWrite == "write: broken pipe"
ErrEOF == "EOF"
ErrDecode == "json: cannot unmarshal"
ErrNoElem == "element does not exist"
ErrCred == "invalid credentials"
ErrTaken == "user already exists"
ErrDisk == "storage failure"

-----------------------------------------------------------------------------
(* The wire *)

hostname == "localhost"
addrs == ":8090"
ExpectedOrigin == "https://" \o hostname \o addrs
Origins == {ExpectedOrigin, "https://evil.example"}

RECURSIVE JoinArgs(_)
JoinArgs(a) ==
    IF a = <<>> THEN ""
    ELSE "\"" \o Head(a) \o "\"" \o (IF Len(a) > 1 THEN "," ELSE "") \o JoinArgs(Tail(a))

\* The frame the browser sends for a typed command line.
EncodeCmd(a) == "{\"Args\":[" \o JoinArgs(a) \o "]}"

UserCmds ==
    { <<"help">>, <<"help", "login">>, <<"clear">>,
      <<"login">>, <<"login", "alice">>, <<"login", "carol">>, <<"login", "b@d">>,
      <<"register">>, <<"register", "bob">>, <<"register", "alice">>,
      <<"frob">> }

\* The client's methods: those that await a reply, and those that do not.
QueryMethods == {"exists", "getHTML", "getAttribute", "getProperty", "prompt"}
FireMethods == {"appendMsg", "appendLink", "appendBreak", "focus", "innerHTML",
                "setAttribute", "setProperty", "editable"}

\* Command lines of a session whose table also holds the testing command "call".
ApiCmds == { <<"call", m>> : m \in QueryMethods \cup FireMethods } \cup { <<"clear">> }

AllCmds == UserCmds \cup ApiCmds

\* What the browser may send while the listener reads: command packets, an
\* empty object, and a frame that is no JSON object.
UserFrames == { EncodeCmd(a) : a \in UserCmds } \cup {"{}", "p1"}

ApiFrames == { EncodeCmd(a) : a \in ApiCmds } \cup {"{}", "p1"}

\* What the user may type at a prompt: text, or what looks like a command.
PromptReplies == {"text", "b@x.com", "p1", "", EncodeCmd(<<"clear">>)}

\* What the browser may answer to exists, getHTML and getProperty.
ExistsReplies == {"true", "false", EncodeCmd(<<"clear">>)}
ValueReplies == {"<b>hi</b>", EncodeCmd(<<"clear">>)}

\* No frame: the stream has ended.
EOF == "<EOF>"

\* What a read may find: a frame of S, unless the stream has ended.
Arrivals(S) == IF rdOpen THEN S \cup {EOF} ELSE {EOF}

\* websocket.JSON.Receive into a packet: the Args of a JSON object, or an error.
Decode(raw) ==
    IF raw = "{}" THEN [args |-> <<>>, e |-> nil]
    ELSE IF \E a \in AllCmds : EncodeCmd(a) = raw
         THEN [args |-> CHOOSE a \in AllCmds : EncodeCmd(a) = raw, e |-> nil]
         ELSE [args |-> <<>>, e |-> ErrDecode]

\* client.readPacket of frame m: decoded; fails when the stream has ended.
readPacket(m) == IF m = EOF THEN [args |-> <<>>, e |-> ErrEOF] ELSE Decode(m)

\* client.recieve of frame m: raw; fails when the stream has ended.
recieve(m) == IF m = EOF THEN [b |-> "", e |-> ErrEOF] ELSE [b |-> m, e |-> nil]

\* ws.WriteJSON
WriteJSON == IF wrOpen THEN nil ELSE ErrWrite

-----------------------------------------------------------------------------
(* Directives (cmd.go) *)

appendMsg(selector, text) ==
    [Type |-> "appendElement",
     Data |-> [Element |-> "div", Selector |-> selector, Class |-> "msg",
               Text |-> text, Scroll |-> "true"]]

appendLink(selector, url, text) ==
    [Type |-> "appendElement",
     Data |-> [Element |-> "a", Selector |-> selector, Id |-> text, Class |-> "ip-link",
               Href |-> url, Text |-> text, Target |-> "_blank", Scroll |-> "true",
               OnClick |-> "removeDecoration"]]

appendBreak(selector) ==
    [Type |-> "appendElement",
     Data |-> [Element |-> "br", Selector |-> selector, Scroll |-> "true"]]

focus(selector, value) ==
    [Type |-> "focus", Data |-> [Selector |-> selector, Value |-> value]]

setProperty(selector, property, value) ==
    [Type |-> property, Data |-> [Selector |-> selector, Value |-> value]]

editable(selector, value) ==
    [Type |-> "editable", Data |-> [Selector |-> selector, Value |-> value]]

innerHTML(selector, value) ==
    [Type |-> "innerHTML", Data |-> [Selector |-> selector, Value |-> value]]

setAttribute(selector, attribute, value) ==
    [Type |-> "setAttribute",
     Data |-> [Selector |-> selector, Attribute |-> attribute, Value |-> value]]

getAttributePkt(selector, attribute) ==
    [Type |-> "getAttribute", Data |-> [Selector |-> selector, Attribute |-> attribute]]

getPropertyPkt(selector, property) ==
    [Type |-> "getProperty", Data |-> [Selector |-> selector, Property |-> property]]

existsPkt(selector) == [Type |-> "exists", Data |-> [Selector |-> selector]]

getHTMLPkt(selector) == [Type |-> "getHTML", Data |-> [Selector |-> selector]]

\* One write, as the log keeps it: who wrote what, and whether it went out.
Sent(op, pkt) == [ev |-> "send", op |-> op, pkt |-> pkt, ok |-> wrOpen]

\* One read of the inbound stream, as the log keeps it.
Rcvd(op, e) == [ev |-> "recv", op |-> op, pkt |-> <<>>, ok |-> (e = nil)]

\* One read by exists, as the log keeps it: with the reply r.b that was compared.
RcvdReply(op, r) == [Rcvd(op, r.e) EXCEPT !.pkt = IF r.e = nil THEN <<r.b>> ELSE <<>>]

\* One call of the user store, as the log keeps it.
Stored(op, e) == [ev |-> "store", op |-> op, pkt |-> <<>>, ok |-> (e = nil)]

-----------------------------------------------------------------------------
(* Collaborators that are not in src/: validation and the user store *)

isName(s) == s \in {"alice", "bob", "carol"}

isEmail(s) == s \in {"b@x.com"}

pathExists(name) == name \in DOMAIN store

\* user.load: the error, and c.user afterwards.
load(name, pass) ==
    IF name \in DOMAIN store /\ store[name].pass = pass
    THEN [e |-> nil, user |-> [Name |-> name, Email |-> store[name].email]]
    ELSE [e |-> ErrCred, user |-> user]

\* user.save of identity u: the errors it may give, and the store afterwards.
saveOutcomes(u, name, pass) ==
    IF name \in DOMAIN store
    THEN { [e |-> ErrTaken, store |-> store] }
    ELSE { [e |-> nil,
            store |-> [n \in DOMAIN store \cup {name} |->
                         IF n = name THEN [pass |-> pass, email |-> u.Email]
                         ELSE store[n]]],
           [e |-> ErrDisk, store |-> store] }

-----------------------------------------------------------------------------
(* Frames *)

NoUser == [Name |-> "", Email |-> ""]
NoH == [args |-> <<>>, name |-> "", email |-> "", pass1 |-> ""]
NoPs == [selector |-> "", text |-> "", attr |-> "", s |-> "", e |-> nil, was |-> ""]
NoQ == [selector |-> "", arg |-> "", e |-> nil]
NoRet == [s |-> "", e |-> nil]

Registry == {"help", "clear", "login", "register"}

InitCommon ==
    /\ origin \in Origins
    /\ pc = "ws_start"
    /\ stack = <<>>
    /\ rdOpen = TRUE
    /\ wrOpen = TRUE
    /\ dom \in {"text", "search"}
    /\ log = <<>>
    /\ user = NoUser
    /\ store = [n \in {"alice"} |-> [pass |-> "p1", email |-> "a@x.com"]]
    /\ lp = <<>>
    /\ le = nil
    /\ lret = nil
    /\ h = NoH
    /\ ps = NoPs
    /\ q = NoQ
    /\ ret = NoRet

Init == InitCommon /\ cmdMap = Registry

-----------------------------------------------------------------------------
(* Calls, returns, reads and writes *)

Call(target, back) == pc' = target /\ stack' = <<back>> \o stack

Return(s, e) ==
    /\ pc' = Head(stack)
    /\ stack' = Tail(stack)
    /\ ret' = [s |-> s, e |-> e]

\* The inbound stream after a read that found m.
Read(m) == rdOpen' = (rdOpen /\ m # EOF)

\* The browser applies a directive that reached it.
Applied(pkt) ==
    IF wrOpen /\ pkt.Type = "setAttribute" /\ pkt.Data.Selector = "#msg-txt"
              /\ pkt.Data.Attribute = "type"
    THEN pkt.Data.Value
    ELSE dom

\* One ws.WriteJSON of pkt by method op: logged, and applied by the browser.
Write(op, pkt) ==
    /\ log' = Append(log, Sent(op, pkt))
    /\ dom' = Applied(pkt)

BreakWrite ==
    /\ pc # "ws_done"
    /\ wrOpen
    /\ wrOpen' = FALSE
    /\ UNCHANGED <<origin, pc, stack, rdOpen, dom, log, cmdMap, user, store,
                   lp, le, lret, h, ps, q, ret>>

-----------------------------------------------------------------------------
(* main.go *)

\* checkTLS of a request whose TLS handshake is complete (or not).
checkTLS(handshakeComplete) == IF handshakeComplete THEN "SECURED" ELSE "UNSECURED"

\* Mutant: wsHandler serves a connection of any origin.
originAcceptedAny(o) == TRUE

\* Whether wsHandler serves a connection whose declared origin is o.
originAccepted(o) == o = ExpectedOrigin

\* wsHandler up to the call of listener.
WsHandler ==
    /\ pc = "ws_start"
    /\ IF ~originAccepted(origin)
       THEN /\ pc' = "ws_done"
            /\ UNCHANGED <<stack, log, dom>>
       ELSE /\ \E tls \in BOOLEAN :
                 Write("appendMsg", appendMsg("#msgList", "SOCKET " \o checkTLS(tls)))
            /\ IF WriteJSON = nil
               THEN Call("l_read", "ws_after")
               ELSE pc' = "ws_done" /\ UNCHANGED stack
    /\ UNCHANGED <<origin, rdOpen, wrOpen, cmdMap, user, store,
                   lp, le, lret, h, ps, q, ret>>

Frames == IF "call" \in cmdMap THEN ApiFrames ELSE UserFrames

\* Mutant: a packet naming no registered command ends the loop as well.
DispatchableKnownOnly(r) == r.e = nil /\ Len(r.args) > 0 /\ r.args[1] \in cmdMap

\* Whether the listener goes on with the packet it read, or breaks.
Dispatchable(r) == r.e = nil /\ Len(r.args) > 0

\* listener: one readPacket and the dispatch of what it read.
ListenerRead ==
    /\ pc = "l_read"
    /\ \E m \in Arrivals(Frames) :
       LET r == readPacket(m) IN
       /\ Read(m)
       /\ lp' = r.args
       /\ IF Dispatchable(r)
          THEN IF r.args[1] \in cmdMap
               THEN /\ Call(r.args[1], "l_after")
                    /\ h' = [NoH EXCEPT !.args = r.args]
                    /\ le' = r.e
                    /\ log' = <<Rcvd("listener", r.e)>>
                    /\ UNCHANGED dom
               ELSE /\ pc' = "l_sleep"
                    /\ le' = WriteJSON
                    /\ log' = <<Rcvd("listener", r.e),
                                Sent("appendMsg",
                                     appendMsg("#msgList", r.args[1] \o ": command not found "))>>
                    /\ UNCHANGED <<stack, h, dom>>
          ELSE /\ pc' = "l_ret"
               /\ le' = r.e
               /\ log' = <<Rcvd("listener", r.e)>>
               /\ UNCHANGED <<stack, h, dom>>
    /\ UNCHANGED <<origin, wrOpen, cmdMap, user, store, lret, ps, q, ret>>

\* listener: cmd.Handler has returned; "e = cmd.Handler(c, p)" sets the loop's e.
ListenerAfter ==
    /\ pc = "l_after"
    /\ le' = ret.e
    /\ pc' = "l_sleep"
    /\ h' = NoH
    /\ ps' = NoPs
    /\ q' = NoQ
    /\ ret' = NoRet
    /\ UNCHANGED <<origin, stack, rdOpen, wrOpen, dom, log, cmdMap, user, store, lp, lret>>

\* Mutant: an iteration that ended with an error ends the loop with that error.
afterIterationBreaking(e) ==
    IF e = nil THEN [pc |-> "l_read", lret |-> lret] ELSE [pc |-> "l_ret", lret |-> e]

\* Mutant: the loop ends after every iteration, with the iteration's error.
afterIterationEnding(e) == [pc |-> "l_ret", lret |-> e]

\* Where the loop goes after an iteration that ended with error e: the loop has
\* no test of e, and the named result was never set.
afterIteration(e) == [pc |-> "l_read", lret |-> lret]

\* listener: time.Sleep, then the next iteration.
ListenerSleep ==
    /\ pc = "l_sleep"
    /\ pc' = afterIteration(le).pc
    /\ lret' = afterIteration(le).lret
    /\ le' = nil
    /\ lp' = <<>>
    /\ log' = <<>>
    /\ UNCHANGED <<origin, stack, rdOpen, wrOpen, dom, cmdMap, user, store, h, ps, q, ret>>

\* listener: return of the named result e after the break.
ListenerReturn ==
    /\ pc = "l_ret"
    /\ Return("", lret)
    /\ UNCHANGED <<origin, rdOpen, wrOpen, dom, log, cmdMap, user, store,
                   lp, le, lret, h, ps, q>>

\* wsHandler after listener: log the error, then the deferred "disconnected".
WsAfter ==
    /\ pc = "ws_after"
    /\ pc' = "ws_done"
    /\ UNCHANGED <<origin, stack, rdOpen, wrOpen, dom, log, cmdMap, user, store,
                   lp, le, lret, h, ps, q, ret>>

-----------------------------------------------------------------------------
(* cmd.go: the client's query methods *)

\* prompt: the appendMsg; its error is overwritten by the receive that follows.
PromptSend ==
    /\ pc = "pr_send"
    /\ Write("prompt", appendMsg("#msg-list",
                                 IF Len(q.arg) > 0 THEN q.arg ELSE "Enter some input:"))
    /\ q' = [q EXCEPT !.e = WriteJSON]
    /\ pc' = "pr_recv"
    /\ UNCHANGED <<origin, stack, rdOpen, wrOpen, cmdMap, user, store,
                   lp, le, lret, h, ps, ret>>

\* What prompt returns for the outcome r of its receive: "b, e := c.recieve()"
\* in the function's own scope sets the result e.
promptResult(r) == [s |-> IF r.e = nil THEN r.b ELSE "", e |-> r.e]

PromptRecv ==
    /\ pc = "pr_recv"
    /\ \E m \in Arrivals(PromptReplies) :
       LET r == promptResult(recieve(m)) IN
       /\ Read(m)
       /\ log' = Append(log, Rcvd("prompt", recieve(m).e))
       /\ Return(r.s, r.e)
    /\ UNCHANGED <<origin, wrOpen, dom, cmdMap, user, store, lp, le, lret, h, ps, q>>

\* Mutant: the method returns after its write and awaits no reply.
afterQueryWriteNoWait(e, recv) == "return"

\* Mutant: the method awaits its reply in the read loop, not in its own receive.
afterQueryWriteInLoop(e, recv) == IF e = nil THEN "l_read" ELSE "return"

\* Where a get* method goes after its write: on to the receive, or back.
afterQueryWrite(e, recv) == IF e = nil THEN recv ELSE "return"

\* getAttribute: the query write; a failed write returns at once.
GetAttributeSend ==
    /\ pc = "ga_send"
    /\ Write("getAttribute", getAttributePkt(q.selector, q.arg))
    /\ IF afterQueryWrite(WriteJSON, "ga_recv") = "return"
       THEN Return("", WriteJSON)
       ELSE pc' = afterQueryWrite(WriteJSON, "ga_recv") /\ UNCHANGED <<stack, ret>>
    /\ UNCHANGED <<origin, rdOpen, wrOpen, cmdMap, user, store, lp, le, lret, h, ps, q>>

\* What a get* method returns for the outcome r of its receive: "b, e :=" inside
\* "if e == nil {" declares a new e, so the result e keeps the write's nil.
getResult(r) == [s |-> IF r.e = nil THEN r.b ELSE "", e |-> nil]

\* getAttribute: the receive; the browser answers with the attribute's value.
GetAttributeRecv ==
    /\ pc = "ga_recv"
    /\ \E m \in Arrivals({dom}) :
       LET r == getResult(recieve(m)) IN
       /\ Read(m)
       /\ log' = Append(log, Rcvd("getAttribute", recieve(m).e))
       /\ Return(r.s, r.e)
    /\ UNCHANGED <<origin, wrOpen, dom, cmdMap, user, store, lp, le, lret, h, ps, q>>

-----------------------------------------------------------------------------
(* cmd.go: promptSecure *)

\* promptSecure calls getAttribute; was keeps what the element's type is now.
PromptSecureStart ==
    /\ pc = "ps_start"
    /\ ps' = [ps EXCEPT !.was = dom]
    /\ q' = [selector |-> ps.selector, arg |-> "type", e |-> nil]
    /\ Call("ga_send", "ps_after_get")
    /\ UNCHANGED <<origin, rdOpen, wrOpen, dom, log, cmdMap, user, store,
                   lp, le, lret, h, ret>>

\* Where promptSecure goes once "password" was written with error e.
afterMask(e) == IF e = nil THEN "pr_send" ELSE "ps_defer"

\* After getAttribute: defer the restore of attr, switch to "password", call prompt.
PromptSecureAfterGet ==
    /\ pc = "ps_after_get"
    /\ IF ret.e = nil
       THEN /\ Write("setAttribute", setAttribute(ps.selector, "type", "password"))
            /\ ps' = [ps EXCEPT !.attr = ret.s, !.e = WriteJSON]
            /\ IF afterMask(WriteJSON) = "pr_send"
               THEN /\ q' = [selector |-> "", arg |-> ps.text, e |-> nil]
                    /\ Call("pr_send", "ps_after_prompt")
               ELSE /\ pc' = afterMask(WriteJSON)
                    /\ UNCHANGED <<stack, q>>
            /\ UNCHANGED ret
       ELSE /\ Return("", ret.e)
            /\ UNCHANGED <<log, dom, ps, q>>
    /\ UNCHANGED <<origin, rdOpen, wrOpen, cmdMap, user, store, lp, le, lret, h>>

PromptSecureAfterPrompt ==
    /\ pc = "ps_after_prompt"
    /\ ps' = [ps EXCEPT !.s = ret.s, !.e = ret.e]
    /\ pc' = "ps_defer"
    /\ UNCHANGED <<origin, stack, rdOpen, wrOpen, dom, log, cmdMap, user, store,
                   lp, le, lret, h, q, ret>>

\* The deferred setAttribute runs as promptSecure returns; its error is dropped.
PromptSecureDefer ==
    /\ pc = "ps_defer"
    /\ Write("setAttribute", setAttribute(ps.selector, "type", ps.attr))
    /\ Return(ps.s, ps.e)
    /\ UNCHANGED <<origin, rdOpen, wrOpen, cmdMap, user, store, lp, le, lret, h, ps, q>>

-----------------------------------------------------------------------------
(* cmd.go: the command handlers *)

Desc(name) ==
    CASE name = "help" -> "help returns help information about available commands."
      [] name = "clear" -> "clear the current terminal's content"
      [] name = "login" -> "login lets you log into a registered user account."
      [] name = "register" -> "register a user account"
      [] OTHER -> "call is a testing command that calls one client method."

\* The orders in which "for k := range cmdMap" may yield the names.
Orders(S) ==
    { f \in [1..Cardinality(S) -> S] : \A i, j \in DOMAIN f : f[i] = f[j] => i = j }

RECURSIVE Listing(_)
Listing(names) == IF names = <<>> THEN "" ELSE " " \o Head(names) \o Listing(Tail(names))

\* A handler's one appendMsg to #msg-list, and its return of that write's error.
Say(op, text) ==
    /\ Write(op, appendMsg("#msg-list", text))
    /\ Return("", WriteJSON)

\* As Say, inside a block whose e was redeclared: the handler returns nil.
SayShadowed(op, text) ==
    /\ Write(op, appendMsg("#msg-list", text))
    /\ Return("", nil)

Help ==
    /\ pc = "help"
    /\ IF Len(h.args) = 1
       THEN \E o \in Orders(cmdMap) : Say("help", "Available commands:" \o Listing(o))
       ELSE IF h.args[2] \in cmdMap
            THEN Say("help", Desc(h.args[2]))
            ELSE Say("help", "Command not available: " \o h.args[2])
    /\ UNCHANGED <<origin, rdOpen, wrOpen, cmdMap, user, store, lp, le, lret, h, ps, q>>

\* clear: the error of innerHTML is dropped.
Clear ==
    /\ pc = "clear"
    /\ Write("clear", innerHTML("#msg-list", " "))
    /\ Return("", nil)
    /\ UNCHANGED <<origin, rdOpen, wrOpen, cmdMap, user, store, lp, le, lret, h, ps, q>>

\* Mutant: login asks for the password of any well-formed name.
shouldPromptAnyName(name) == isName(name)

\* Whether login goes on to ask for the password of name.
shouldPrompt(name) == isName(name) /\ pathExists(name)

\* login up to the call of promptSecure.
Login ==
    /\ pc = "login"
    /\ IF Len(h.args) = 1
       THEN Say("login", "Usage: login <name>") /\ UNCHANGED <<h, ps>>
       ELSE IF shouldPrompt(h.args[2])
       THEN /\ h' = [h EXCEPT !.name = h.args[2]]
            /\ ps' = [NoPs EXCEPT !.selector = "#msg-txt",
                                  !.text = "Please enter your password"]
            /\ Call("ps_start", "login_after")
            /\ UNCHANGED <<log, dom, ret>>
       ELSE IF isName(h.args[2])
       THEN Say("login", "User does not exist") /\ UNCHANGED <<h, ps>>
       ELSE Say("login", "Invalid characters in name") /\ UNCHANGED <<h, ps>>
    /\ UNCHANGED <<origin, rdOpen, wrOpen, cmdMap, user, store, lp, le, lret, q>>

\* login after promptSecure: "pass, e :=" redeclares e, the handler returns nil.
LoginAfter ==
    /\ pc = "login_after"
    /\ IF ret.e = nil /\ Len(ret.s) > 0
       THEN LET r == load(h.name, ret.s) IN
            /\ user' = r.user
            /\ log' = log \o
                 <<Stored("load", r.e),
                   Sent("login", appendMsg("#msg-list",
                        IF r.e # nil THEN "Login failed"
                        ELSE "Welcome back, " \o r.user.Name))>>
       ELSE UNCHANGED <<user, log>>
    /\ Return("", nil)
    /\ UNCHANGED <<origin, rdOpen, wrOpen, dom, cmdMap, store, lp, le, lret, h, ps, q>>

\* register up to the call of prompt for the email.
Register ==
    /\ pc = "register"
    /\ IF ~(Len(h.args) > 1)
       THEN Say("register", "Usage: register <name>") /\ UNCHANGED <<h, q>>
       ELSE IF ~isName(h.args[2])
       THEN Say("register", "Invalid characters in name") /\ UNCHANGED <<h, q>>
       ELSE /\ h' = [h EXCEPT !.name = h.args[2]]
            /\ q' = [selector |-> "", arg |-> "Enter your email address", e |-> nil]
            /\ Call("pr_send", "reg_email")
            /\ UNCHANGED <<log, dom, ret>>
    /\ UNCHANGED <<origin, rdOpen, wrOpen, cmdMap, user, store, lp, le, lret, ps>>

\* Mutant: register goes on with whatever the email prompt returned.
emailAcceptedUnchecked(email, e) == e = nil

\* Whether register goes on to the passwords, given the reply to the email prompt.
emailAccepted(email, e) == e = nil /\ isEmail(email)

\* register after the email prompt: "email, e :=" redeclares e.
RegisterAfterEmail ==
    /\ pc = "reg_email"
    /\ IF emailAccepted(ret.s, ret.e)
       THEN /\ h' = [h EXCEPT !.email = ret.s]
            /\ ps' = [NoPs EXCEPT !.selector = "#msg-txt", !.text = "Enter a good password"]
            /\ Call("ps_start", "reg_pass1")
            /\ UNCHANGED <<log, dom, ret>>
       ELSE /\ SayShadowed("register", "Bad email address")
            /\ UNCHANGED <<h, ps>>
    /\ UNCHANGED <<origin, rdOpen, wrOpen, cmdMap, user, store, lp, le, lret, q>>

RegisterAfterPass1 ==
    /\ pc = "reg_pass1"
    /\ IF ret.e = nil
       THEN /\ h' = [h EXCEPT !.pass1 = ret.s]
            /\ ps' = [NoPs EXCEPT !.selector = "#msg-txt", !.text = "Re-enter your password"]
            /\ Call("ps_start", "reg_pass2")
            /\ UNCHANGED ret
       ELSE /\ Return("", nil)
            /\ UNCHANGED <<h, ps>>
    /\ UNCHANGED <<origin, rdOpen, wrOpen, dom, log, cmdMap, user, store, lp, le, lret, q>>

\* Mutant: register saves whenever the second prompt succeeded.
passwordsAgreeUnchecked(pass1, pass2, e2) == e2 = nil

\* Whether register goes on to save, given the two passwords and the error e2.
passwordsAgree(pass1, pass2, e2) == e2 = nil /\ pass1 = pass2

\* register after the second promptSecure: set c.user, save, report.
RegisterAfterPass2 ==
    /\ pc = "reg_pass2"
    /\ IF passwordsAgree(h.pass1, ret.s, ret.e)
       THEN LET u == [Name |-> h.name, Email |-> h.email] IN
            \E o \in saveOutcomes(u, h.name, h.pass1) :
               /\ user' = u
               /\ store' = o.store
               /\ log' = log \o
                    <<Stored("save", o.e),
                      Sent("register", appendMsg("#msg-list",
                           IF o.e = nil
                           THEN "User account created (don't forget your password!)"
                           ELSE o.e))>>
               /\ Return("", nil)
               /\ UNCHANGED dom
       ELSE /\ SayShadowed("register", "Failed! Passwords did not match")
            /\ UNCHANGED <<user, store>>
    /\ UNCHANGED <<origin, rdOpen, wrOpen, cmdMap, lp, le, lret, h, ps, q>>

-----------------------------------------------------------------------------
(* cmd.go: the query methods no registered command calls *)

\* exists: the query write; a failed write answers false.
ExistsSend ==
    /\ pc = "ex_send"
    /\ Write("exists", existsPkt(q.selector))
    /\ IF afterQueryWrite(WriteJSON, "ex_recv") = "return"
       THEN Return("false", nil)
       ELSE pc' = afterQueryWrite(WriteJSON, "ex_recv") /\ UNCHANGED <<stack, ret>>
    /\ UNCHANGED <<origin, rdOpen, wrOpen, cmdMap, user, store, lp, le, lret, h, ps, q>>

\* Mutant: exists answers true for any reply that was received.
existsResultAnyReply(r) == IF r.e = nil THEN "true" ELSE "false"

\* What exists answers for the outcome r of its receive.
existsResult(r) == IF r.e = nil /\ r.b = "true" THEN "true" ELSE "false"

ExistsRecv ==
    /\ pc = "ex_recv"
    /\ \E m \in Arrivals(ExistsReplies) :
       /\ Read(m)
       /\ log' = Append(log, RcvdReply("exists", recieve(m)))
       /\ Return(existsResult(recieve(m)), nil)
    /\ UNCHANGED <<origin, wrOpen, dom, cmdMap, user, store, lp, le, lret, h, ps, q>>

GetHTMLStart ==
    /\ pc = "gh_start"
    /\ Call("ex_send", "gh_after_exists")
    /\ UNCHANGED <<origin, rdOpen, wrOpen, dom, log, cmdMap, user, store,
                   lp, le, lret, h, ps, q, ret>>

\* getHTML after exists: the query write, or "element does not exist".
GetHTMLAfterExists ==
    /\ pc = "gh_after_exists"
    /\ IF ret.s = "true"
       THEN /\ Write("getHTML", getHTMLPkt(q.selector))
            /\ IF afterQueryWrite(WriteJSON, "gh_recv") = "return"
               THEN Return("", WriteJSON)
               ELSE pc' = afterQueryWrite(WriteJSON, "gh_recv") /\ UNCHANGED <<stack, ret>>
       ELSE /\ Return("", ErrNoElem)
            /\ UNCHANGED <<log, dom>>
    /\ UNCHANGED <<origin, rdOpen, wrOpen, cmdMap, user, store, lp, le, lret, h, ps, q>>

GetHTMLRecv ==
    /\ pc = "gh_recv"
    /\ \E m \in Arrivals(ValueReplies) :
       LET r == getResult(recieve(m)) IN
       /\ Read(m)
       /\ log' = Append(log, Rcvd("getHTML", recieve(m).e))
       /\ Return(r.s, r.e)
    /\ UNCHANGED <<origin, wrOpen, dom, cmdMap, user, store, lp, le, lret, h, ps, q>>

GetPropertySend ==
    /\ pc = "gp_send"
    /\ Write("getProperty", getPropertyPkt(q.selector, q.arg))
    /\ IF afterQueryWrite(WriteJSON, "gp_recv") = "return"
       THEN Return("", WriteJSON)
       ELSE pc' = afterQueryWrite(WriteJSON, "gp_recv") /\ UNCHANGED <<stack, ret>>
    /\ UNCHANGED <<origin, rdOpen, wrOpen, cmdMap, user, store, lp, le, lret, h, ps, q>>

GetPropertyRecv ==
    /\ pc = "gp_recv"
    /\ \E m \in Arrivals(ValueReplies) :
       LET r == getResult(recieve(m)) IN
       /\ Read(m)
       /\ log' = Append(log, Rcvd("getProperty", recieve(m).e))
       /\ Return(r.s, r.e)
    /\ UNCHANGED <<origin, wrOpen, dom, cmdMap, user, store, lp, le, lret, h, ps, q>>

-----------------------------------------------------------------------------
(* The testing command "call <method>": one call of a client method, as the   *)
(* commented-out "prompt" command of cmd.go made one of prompt.               *)

\* Where each query method starts.
entry(method) ==
    CASE method = "exists" -> "ex_send"
      [] method = "getHTML" -> "gh_start"
      [] method = "getAttribute" -> "ga_send"
      [] method = "getProperty" -> "gp_send"
      [] method = "prompt" -> "pr_send"

\* The packet each fire-and-forget method writes, for the arguments "call" passes.
directive(method) ==
    CASE method = "appendMsg" -> appendMsg("#msg-list", "hello")
      [] method = "appendLink" -> appendLink("#msg-list", "http://x.com", "x")
      [] method = "appendBreak" -> appendBreak("#msg-list")
      [] method = "focus" -> focus("#msg-txt", "true")
      [] method = "innerHTML" -> innerHTML("#msg-list", " ")
      [] method = "setAttribute" -> setAttribute("#msg-txt", "class", "wide")
      [] method = "setProperty" -> setProperty("#msg-txt", "color", "red")
      [] method = "editable" -> editable("#msg-txt", "true")

CallQuery ==
    /\ pc = "call"
    /\ h.args[2] \in QueryMethods
    /\ q' = [selector |-> "#msg-txt",
             arg |-> CASE h.args[2] = "getAttribute" -> "type"
                       [] h.args[2] = "getProperty" -> "color"
                       [] h.args[2] = "prompt" -> ""
                       [] OTHER -> "",
             e |-> nil]
    /\ Call(entry(h.args[2]), "call_after")
    /\ UNCHANGED <<origin, rdOpen, wrOpen, dom, log, cmdMap, user, store,
                   lp, le, lret, h, ps, ret>>

\* Mutant: a directive that went out awaits an acknowledgement from the browser.
afterDirectiveAwaitsAck(e) == IF e = nil THEN "pr_recv" ELSE "return"

\* Where a fire-and-forget method goes after its write: "e = c.ws.WriteJSON(p)"
\* is followed by the return.
afterDirective(e) == "return"

\* call <method> for a fire-and-forget method: the one write, and the return.
CallFire ==
    /\ pc = "call"
    /\ h.args[2] \in FireMethods
    /\ Write(h.args[2], directive(h.args[2]))
    /\ IF afterDirective(WriteJSON) = "return"
       THEN Return("", WriteJSON)
       ELSE pc' = afterDirective(WriteJSON) /\ UNCHANGED <<stack, ret>>
    /\ UNCHANGED <<origin, rdOpen, wrOpen, cmdMap, user, store, lp, le, lret, h, ps, q>>

CallAfter ==
    /\ pc = "call_after"
    /\ Return(ret.s, ret.e)
    /\ UNCHANGED <<origin, rdOpen, wrOpen, dom, log, cmdMap, user, store,
                   lp, le, lret, h, ps, q>>

-----------------------------------------------------------------------------
(* Specifications *)

Session ==
    \/ BreakWrite
    \/ WsHandler
    \/ ListenerRead
    \/ ListenerAfter
    \/ ListenerSleep
    \/ ListenerReturn
    \/ WsAfter
    \/ PromptSend
    \/ PromptRecv
    \/ GetAttributeSend
    \/ GetAttributeRecv
    \/ Clear

Flows ==
    \/ PromptSecureStart
    \/ PromptSecureAfterGet
    \/ PromptSecureAfterPrompt
    \/ PromptSecureDefer
    \/ Help
    \/ Login
    \/ LoginAfter
    \/ Register
    \/ RegisterAfterEmail
    \/ RegisterAfterPass1
    \/ RegisterAfterPass2

Api ==
    \/ ExistsSend
    \/ ExistsRecv
    \/ GetHTMLStart
    \/ GetHTMLAfterExists
    \/ GetHTMLRecv
    \/ GetPropertySend
    \/ GetPropertyRecv
    \/ CallQuery
    \/ CallFire
    \/ CallAfter

\* The program: the four registered commands.
Next == Session \/ Flows

Spec == Init /\ [][Next]_vars

\* The program with the testing command in its table, which reaches every
\* method of the client.
ApiInit == InitCommon /\ cmdMap = Registry \cup {"call"}

ApiNext == Session \/ Api

ApiSpec == ApiInit /\ [][ApiNext]_vars

-----------------------------------------------------------------------------
(* Properties *)

Last(seq) == seq[Len(seq)]

\* Where each query method awaits its reply.
recvLabel(op) ==
    CASE op = "exists" -> "ex_recv"
      [] op = "getHTML" -> "gh_recv"
      [] op = "getAttribute" -> "ga_recv"
      [] op = "getProperty" -> "gp_recv"
      [] op = "prompt" -> "pr_recv"

\* Entry i of the log is a query that went out.
QuerySentAt(i) == log[i].ev = "send" /\ log[i].op \in QueryMethods /\ log[i].ok

\* C1: for every query method (exists, getHTML, getAttribute, getProperty,
\* prompt), the read of the inbound stream that follows a query that went out
\* is made by that query's own receive: the frame becomes the answer, and the
\* listener reads nothing while a packet is being served, whatever the frame
\* holds.
C1_ReplyGoesToQuery ==
    \A i \in 1..Len(log) :
       /\ (log[i].ev = "recv" /\ log[i].op = "listener") => i = 1
       /\ QuerySentAt(i) =>
             IF i < Len(log)
             THEN log[i + 1].ev = "recv" /\ log[i + 1].op = log[i].op
             ELSE pc = recvLabel(log[i].op)

\* A prompt has taken as its answer a frame that is the command line "clear".
C1_Witness ==
    /\ pc = "call_after"
    /\ "clear" \in cmdMap
    /\ Len(log) = 3
    /\ QuerySentAt(2)
    /\ log[3] = Rcvd("prompt", nil)
    /\ ret = [s |-> EncodeCmd(<<"clear">>), e |-> nil]

\* C2: a packet whose args[0] is no registered command makes the listener
\* write the appendMsg "<name>: command not found " to #msgList and nothing
\* else, and the loop then goes back to reading, whether or not that write
\* went out.
C2_UnknownCommand ==
    [][ /\ (pc = "l_read" /\ lp' # <<>> /\ lp'[1] \notin cmdMap) =>
             /\ pc' = "l_sleep"
             /\ Len(log') = 2
             /\ log'[2].ev = "send"
             /\ log'[2].pkt = appendMsg("#msgList", lp'[1] \o ": command not found ")
        /\ (pc = "l_sleep" /\ pc' # pc) => pc' = "l_read"
      ]_vars

\* The listener has answered the unknown command "frob".
C2_Witness ==
    /\ pc = "l_sleep"
    /\ lp = <<"frob">>
    /\ log[2] = [ev |-> "send", op |-> "appendMsg", ok |-> TRUE,
                 pkt |-> appendMsg("#msgList", "frob: command not found ")]

HandlerFrames == { i \in 1..Len(stack) : stack[i] = "l_after" }

RecvLabels == {"ex_recv", "gh_recv", "ga_recv", "gp_recv", "pr_recv"}

PendingQueries ==
    { i \in 1..Len(log) :
        QuerySentAt(i) /\ (i = Len(log) \/ log[i + 1].ev # "recv") }

\* C3: at most one handler is executing and at most one query is outstanding;
\* the listener is at a position of its loop only when no handler is in
\* progress, and a query awaits its reply only inside that one handler.
C3_OneHandlerOneQuery ==
    /\ Cardinality(HandlerFrames) <= 1
    /\ Cardinality(PendingQueries) <= 1
    /\ pc \in {"l_read", "l_sleep", "l_ret"} => stack = <<"ws_after">>
    /\ pc \in RecvLabels => Cardinality(HandlerFrames) = 1
    /\ \A i \in 1..Len(log) : (log[i].ev = "recv" /\ log[i].op = "listener") => i = 1

\* register awaits the reply to its second password prompt.
C3_Witness ==
    /\ pc = "pr_recv"
    /\ stack = <<"ps_after_prompt", "reg_pass2", "l_after", "ws_after">>
    /\ PendingQueries = {Len(log)}

\* C4 (as claimed): whenever promptSecure has switched the type attribute to
\* "password", the last directive it sends before returning is a setAttribute
\* carrying the value the attribute had when promptSecure was called.
C4_RestoresPriorValue ==
    (/\ pc \in {"login_after", "reg_pass1", "reg_pass2"}
     /\ Len(log) >= 4
     /\ log[Len(log) - 3] = [ev |-> "send", op |-> "setAttribute", ok |-> TRUE,
                             pkt |-> setAttribute("#msg-txt", "type", "password")])
    => /\ Last(log).ev = "send"
       /\ Last(log).pkt = setAttribute("#msg-txt", "type", ps.was)

\* C5 (as claimed): a query method whose receive failed returns an error.
C5_FailedReceiveIsReported ==
    (/\ Len(log) > 0
     /\ Last(log).ev = "recv"
     /\ Last(log).op \in QueryMethods
     /\ ~Last(log).ok)
    => ret.e # nil

\* C6: when register has received both passwords and they differ, its next
\* step makes no call of the user store, leaves store and identity as they
\* are, and writes the appendMsg "Failed! Passwords did not match".
C6_MismatchNeverSaves ==
    [][ (pc = "reg_pass2" /\ pc' # pc /\ ret.e = nil /\ ret.s # h.pass1) =>
           /\ store' = store
           /\ user' = user
           /\ Len(log') = Len(log) + 1
           /\ \A i \in 1..Len(log') : log'[i].ev # "store"
           /\ Last(log').ev = "send"
           /\ Last(log').pkt = appendMsg("#msg-list", "Failed! Passwords did not match")
      ]_vars

\* register has reported a mismatch after a second prompt that was answered.
C6_Witness ==
    /\ pc = "l_after"
    /\ Len(log) >= 3
    /\ log[Len(log) - 2] = Rcvd("prompt", nil)
    /\ Last(log).ok
    /\ Last(log).pkt = appendMsg("#msg-list", "Failed! Passwords did not match")

\* C7: when login <name> returns for a well-formed name with no account, all
\* it did was write the one appendMsg "User does not exist": no getAttribute,
\* setAttribute or prompt was written and no inbound frame was consumed.
C7_NoPromptForUnknownUser ==
    (/\ pc = "l_after"
     /\ Len(h.args) = 2
     /\ h.args[1] = "login"
     /\ isName(h.args[2])
     /\ h.args[2] \notin DOMAIN store)
    => /\ Len(log) = 2
       /\ log[1] = Rcvd("listener", nil)
       /\ log[2].ev = "send"
       /\ log[2].pkt = appendMsg("#msg-list", "User does not exist")

\* login carol has returned, and its message went out.
C7_Witness ==
    /\ pc = "l_after"
    /\ h.args = <<"login", "carol">>
    /\ Last(log).ok

\* C8 (as claimed): c.user changes only in a step whose call of the user
\* store (load or save) succeeded.
C8_IdentityOnlyOnSuccess ==
    [][ user' # user =>
           /\ Len(log') >= 2
           /\ log'[Len(log') - 1].ev = "store"
           /\ log'[Len(log') - 1].ok
      ]_vars

Ended == {"l_ret", "ws_after", "ws_done"}

\* C9 (as claimed): the loop ends exactly when readPacket fails, and once it
\* has ended nothing more is read or dispatched.
C9_EndsOnlyOnReadFailure ==
    [][ /\ (pc = "l_read" /\ pc' # pc) => (pc' = "l_ret" <=> ~log'[1].ok)
        /\ pc \in Ended => (pc' \in Ended /\ log' = log /\ rdOpen' = rdOpen)
      ]_vars

\* C9 (amended): the loop ends exactly when readPacket fails or the packet it
\* decoded has no args; a decoded packet with args never ends it, and once
\* the loop has ended nothing more is read or dispatched.
C9_EndsOnReadFailureOrNoArgs ==
    [][ /\ (pc = "l_read" /\ pc' # pc) =>
              (pc' = "l_ret" <=> (~log'[1].ok \/ lp' = <<>>))
        /\ pc \in Ended => (pc' \in Ended /\ log' = log /\ rdOpen' = rdOpen)
      ]_vars

\* The loop has ended on a packet that was decoded and has no args.
C9_Witness ==
    /\ pc = "l_ret"
    /\ log = <<Rcvd("listener", nil)>>
    /\ lp = <<>>
    /\ rdOpen

\* C10 (as claimed): once a handler has returned an error, the loop reads no
\* further packet: it ends, and that error is its result.
C10_HandlerErrorEndsLoop ==
    [][ (pc = "l_sleep" /\ pc' # pc /\ lp # <<>> /\ lp[1] \in cmdMap /\ le # nil) =>
           (pc' = "l_ret" /\ lret' = le)
      ]_vars

\* What login and register say when a validation or the authentication failed.
FailureTexts ==
    {"Invalid characters in name", "Bad email address",
     "Failed! Passwords did not match", "User does not exist", "Login failed"}

\* login or register is the command being served, and its failure message went out.
FailureReported ==
    /\ lp # <<>>
    /\ lp[1] \in {"login", "register"}
    /\ \E i \in 1..Len(log) :
          /\ log[i].ev = "send"
          /\ log[i].ok
          /\ log[i].pkt \in { appendMsg("#msg-list", t) : t \in FailureTexts }

\* C11: once login or register has reported a validation or authentication
\* failure (bad name, bad email, password mismatch, no such account, wrong
\* password), the handler returns into the loop, the loop goes back to
\* reading with no error as its result and the stream as it was, and the next
\* packet naming a registered command is dispatched to that command's handler.
C11_FailureKeepsSession ==
    [][ /\ (pc = "l_after" /\ pc' # pc /\ FailureReported) => pc' = "l_sleep"
        /\ (pc = "l_sleep" /\ pc' # pc /\ FailureReported) =>
              (pc' = "l_read" /\ lret' = nil /\ rdOpen' = rdOpen)
        /\ (pc = "l_read" /\ pc' # pc /\ log'[1].ok /\ lp' # <<>> /\ lp'[1] \in cmdMap) =>
              (pc' = lp'[1] /\ h'.args = lp' /\ stack' = <<"l_after">> \o stack)
      ]_vars

\* login alice was answered with a wrong password and "Login failed" went out;
\* the loop is about to go on.
C11_Witness ==
    /\ pc = "l_sleep"
    /\ lp = <<"login", "alice">>
    /\ user = NoUser
    /\ Last(log) = [ev |-> "send", op |-> "login", ok |-> TRUE,
                    pkt |-> appendMsg("#msg-list", "Login failed")]

\* The texts of the messages the login handler itself has written.
LoginFeedback ==
    { log[i].pkt.Data.Text :
        i \in { j \in 1..Len(log) : log[j].ev = "send" /\ log[j].op = "login" } }

LoadSucceeded == \E i \in 1..Len(log) : log[i] = Stored("load", nil)

\* C12 (as claimed): when login <name> returns for a well-formed name without
\* having logged in, the only feedback it has written is "Login failed",
\* whether the account is missing or the password was wrong.
C12_GenericLoginFailure ==
    (/\ pc = "l_after"
     /\ Len(lp) = 2
     /\ lp[1] = "login"
     /\ isName(lp[2])
     /\ ~LoadSucceeded)
    => LoginFeedback \subseteq {"Login failed"}

\* The prompts register makes, in order.
RegPrompts ==
    <<"Enter your email address", "Enter a good password", "Re-enter your password">>

IsPromptEvent(x) == x.op = "prompt"

IsPromptReply(x) == x = Rcvd("prompt", nil)

IsMaskEvent(x) == x.ev = "send" /\ x.op \in {"getAttribute", "setAttribute"}

SaveCalled(l) == \E i \in 1..Len(l) : l[i].ev = "store" /\ l[i].op = "save"

\* The prompts of register so far are the first of email, password,
\* confirmation, each sent only after the one before was answered; and if "Bad
\* email address" was written, only the email was asked for and the input box
\* was never touched.
RegOrderOk ==
    (lp # <<>> /\ lp[1] = "register") =>
       LET R == SelectSeq(log, IsPromptEvent) IN
       /\ Len(R) <= 6
       /\ \A i \in 1..Len(R) :
             IF i % 2 = 1
             THEN /\ R[i].ev = "send"
                  /\ R[i].pkt = appendMsg("#msg-list", RegPrompts[(i + 1) \div 2])
                  /\ i > 1 => R[i - 1].ok
             ELSE R[i].ev = "recv"
       /\ (\E i \in 1..Len(log) :
              log[i].ev = "send" /\ log[i].pkt = appendMsg("#msg-list", "Bad email address"))
          => /\ Len(R) = 2
             /\ SelectSeq(log, IsMaskEvent) = <<>>

LoadCalled == \E i \in 1..Len(log) : log[i].ev = "store" /\ log[i].op = "load"

\* C14 (as claimed): when login <name> returns for an existing account after
\* its password prompt was answered, the reply was handed to user.load, and
\* unless load succeeded the handler has written "Login failed".
C14_ReplyIsVerified ==
    (/\ pc = "l_after"
     /\ Len(lp) = 2
     /\ lp[1] = "login"
     /\ isName(lp[2])
     /\ pathExists(lp[2])
     /\ \E i \in 1..Len(log) : log[i] = Rcvd("prompt", nil))
    => /\ LoadCalled
       /\ LoadSucceeded \/ "Login failed" \in LoginFeedback

\* C15: a call of a fire-and-forget method (appendMsg, appendLink, appendBreak,
\* focus, innerHTML, setAttribute, setProperty, editable) adds exactly one
\* write of its packet and returns at once with that write's error, reading
\* nothing; only the listener and the query methods ever read the inbound
\* stream, and the packet that arrives next is read by the listener and, if it
\* names a registered command, dispatched to it.
C15_DirectiveReadsNothing ==
    [][ /\ (pc = "call" /\ pc' # pc /\ h.args[2] \in FireMethods) =>
              /\ log' = Append(log, [ev |-> "send", op |-> h.args[2], ok |-> wrOpen,
                                     pkt |-> directive(h.args[2])])
              /\ rdOpen' = rdOpen
              /\ pc' = "l_after"
              /\ stack' = Tail(stack)
              /\ ret' = [s |-> "", e |-> WriteJSON]
        /\ \A i \in 1..Len(log') :
              log'[i].ev = "recv" => log'[i].op \in QueryMethods \cup {"listener"}
        /\ rdOpen' # rdOpen => (Len(log') > 0 /\ Last(log').ev = "recv")
        /\ (pc = "l_after" /\ pc' # pc) => pc' = "l_sleep"
        /\ (pc = "l_sleep" /\ pc' # pc) => pc' = "l_read"
        /\ (pc = "l_read" /\ pc' # pc /\ log'[1].ok /\ lp' # <<>> /\ lp'[1] \in cmdMap) =>
              (pc' = lp'[1] /\ h'.args = lp')
      ]_vars

\* call focus has returned: one packet read by the listener, one directive
\* written, and the stream still open for the next command.
C15_Witness ==
    /\ pc = "l_after"
    /\ lp = <<"call", "focus">>
    /\ rdOpen
    /\ log = <<Rcvd("listener", nil),
               [ev |-> "send", op |-> "focus", ok |-> TRUE, pkt |-> focus("#msg-txt", "true")]>>

\* C16 (as claimed): prompt does not go on to await a reply when the write of
\* its message failed, and a handler (help, clear, login, register) that has
\* returned after a write of its own failed has returned an error.
C16_WriteFailureIsReturned ==
    /\ pc = "pr_recv" => Last(log).ok
    /\ pc = "l_after" =>
          \A i \in 1..Len(log) :
             (/\ log[i].ev = "send"
              /\ log[i].op \in {"help", "clear", "login", "register"}
              /\ ~log[i].ok)
             => ret.e # nil

\* Nothing was written, read or dispatched on the connection.
Untouched ==
    /\ log = <<>>
    /\ rdOpen
    /\ stack = <<>>
    /\ lp = <<>>
    /\ h = NoH
    /\ user = NoUser

\* C17: on a connection whose origin is not "https://" + hostname + addrs,
\* wsHandler returns having written, read and dispatched nothing; and it calls
\* listener only in the step in which the greeting was written and went out,
\* returning at once when that write failed.
C17_SessionOnlyAfterOriginCheck ==
    [][ /\ origin' # ExpectedOrigin => (pc' \in {"ws_start", "ws_done"} /\ Untouched')
        /\ (pc = "ws_start" /\ pc' # pc) =>
              IF origin = ExpectedOrigin /\ wrOpen
              THEN /\ pc' = "l_read"
                   /\ Len(log') = 1
                   /\ log'[1].ev = "send"
                   /\ log'[1].ok
                   /\ log'[1].pkt \in { appendMsg("#msgList", "SOCKET " \o t) :
                                           t \in {"SECURED", "UNSECURED"} }
              ELSE pc' = "ws_done" /\ rdOpen' = rdOpen /\ stack' = <<>>
        /\ (pc' = "l_read" /\ pc # "l_read") => pc \in {"ws_start", "l_sleep"}
      ]_vars

\* wsHandler has returned on a connection of a foreign origin.
C17_Witness ==
    /\ pc = "ws_done"
    /\ origin # ExpectedOrigin
    /\ Untouched

\* The texts promptSecure is called with.
SecurePrompts ==
    {"Please enter your password", "Enter a good password", "Re-enter your password"}

\* C18 (as claimed): promptSecure writes its prompt message only after the
\* current type attribute was read and the directive setting it to "password"
\* went out: the three log entries before the prompt message are the
\* getAttribute query that went out, its reply received, and the mask written.
C18_PromptOnlyWhenMasked ==
    \A i \in 1..Len(log) :
       (/\ log[i].ev = "send"
        /\ log[i].op = "prompt"
        /\ log[i].pkt \in { appendMsg("#msg-list", t) : t \in SecurePrompts })
       => /\ i >= 4
          /\ log[i - 3] = [ev |-> "send", op |-> "getAttribute", ok |-> TRUE,
                           pkt |-> getAttributePkt("#msg-txt", "type")]
          /\ log[i - 2] = Rcvd("getAttribute", nil)
          /\ log[i - 1] = [ev |-> "send", op |-> "setAttribute", ok |-> TRUE,
                           pkt |-> setAttribute("#msg-txt", "type", "password")]

\* The reply exists received was exactly "true".
ExistsSaidTrue ==
    /\ Len(log) >= 3
    /\ log[3].ev = "recv"
    /\ log[3].op = "exists"
    /\ log[3].pkt = <<"true">>

\* C19: while call getHTML is served, the first write is the exists query; the
\* getHTML query is written only as the entry after an exists query that went
\* out and a reply that is exactly "true", and the content is received only
\* after a getHTML query that went out; when getHTML has returned, either the
\* reply was "true" and the getHTML query was written, or no getHTML query was
\* written, nothing was read after the reply to exists, and the error is
\* "element does not exist".
C19_GetHTMLTwoSteps ==
    (lp = <<"call", "getHTML">>) =>
       /\ Len(log) >= 2 =>
             (log[2].ev = "send" /\ log[2].pkt = existsPkt("#msg-txt"))
       /\ \A i \in 1..Len(log) :
             /\ (log[i].ev = "send" /\ log[i].op = "getHTML") =>
                   /\ i = 4
                   /\ log[2].ok
                   /\ ExistsSaidTrue
                   /\ log[i].pkt = getHTMLPkt("#msg-txt")
             /\ (log[i].ev = "recv" /\ log[i].op = "getHTML") =>
                   /\ i = 5
                   /\ log[4].ev = "send" /\ log[4].op = "getHTML" /\ log[4].ok
             /\ (log[i].ev = "recv" /\ log[i].op = "exists") => (i = 3 /\ log[2].ok)
       /\ pc \in {"call_after", "l_after"} =>
             IF ExistsSaidTrue
             THEN /\ Len(log) >= 4
                  /\ log[4].ev = "send" /\ log[4].op = "getHTML"
                  /\ ret.e # ErrNoElem
             ELSE /\ Len(log) <= 3
                  /\ ret = [s |-> "", e |-> ErrNoElem]

\* getHTML has returned the content after both of its exchanges.
C19_Witness ==
    /\ pc = "call_after"
    /\ lp = <<"call", "getHTML">>
    /\ Len(log) = 5
    /\ ExistsSaidTrue
    /\ log[5] = Rcvd("getHTML", nil)
    /\ ret = [s |-> "<b>hi</b>", e |-> nil]

====
